---- MODULE Spec2Model ----
(***************************************************************************)
(* Plant monitor frontend: the useSensorData hook (acquisition loop), the  *)
(* ESP32Service HTTP fetcher, the mock data generator and the history      *)
(* buffer, modelled as one state machine.                                  *)
(*                                                                         *)
(* JavaScript scheduling is modelled as it is: handlers (timer callbacks,  *)
(* clicks, network events) are macrotasks that run to completion; the      *)
(* rejection of an aborted fetch is a microtask, which runs before any     *)
(* further macrotask.  Time is a millisecond clock that advances in steps  *)
(* of one polling period; a timer never fires before its deadline.         *)
(***************************************************************************)
EXTENDS Integers, Sequences, FiniteSets, TLC

\* ---------------------------------------------------------------- bounds
\* number of fetchData invocations that get past the mounted guard
MaxCycles == 3
\* number of clock advances
MaxTicks == 3
\* how far beyond the ADC range on either side the fetched integers go
Margin == 1000
\* number of clock advances of a long session, and of its failed cycles
HistMaxTicks == 33
HistMaxFailures == 2
\* largest number of points asked of generateMockHistoryData
MaxPoints == 11
\* WebSocket sockets ever created, and calls of connect() / disconnect() by
\* the application
WsMaxSockets == 12
WsMaxCalls == 2

\* ------------------------------------------------------- program constants
updateInterval == 5
timeout == 15000
reconnectInterval == 5000
maxReconnectAttempts == 10
HISTORY_MAX_POINTS == 30
ADC_MIN == 0
ADC_MAX == 4095
FallbackPoints == 10
DEFAULT_MOCK_DATA == [soilMoisture |-> 1200, light |-> 3200]

\* one polling period in milliseconds (setInterval argument)
TimeStep == updateInterval * 1000
\* Date.now() when the hook is constructed
StartTime == 20 * TimeStep

\* ------------------------------------------------------------ JS values
Min(a, b) == IF a < b THEN a ELSE b
Max(a, b) == IF a > b THEN a ELSE b

\* Date | null.  tag "invalid" is an Invalid Date (getTime() is NaN).
NullDate == [tag |-> "null", ms |-> 0]
InvalidDate == [tag |-> "invalid", ms |-> 0]
NewDate(ms) == [tag |-> "date", ms |-> ms]
\* a || b on Date | null operands: every Date object is truthy
DateOr(a, b) == IF a.tag = "null" THEN b ELSE a
\* Date.prototype.getTime: a number, NaN for an Invalid Date
getTime(d) == [nan |-> d.tag = "invalid", v |-> IF d.tag = "date" THEN d.ms ELSE 0]

\* string | null for ConnectionState.error
NullError == "<null>"
OfflineMessage == "ESP32 offline - no recent data"

\* Numbers of a JSON body are kept in tenths, so that Math.round is not the
\* identity.  Math.round rounds half up: floor(x + 0.5).
MathRound(tenths) == (tenths + 5) \div 10
\* Math.floor of a value in thousandths
MathFloor(thousandths) == thousandths \div 1000

\* new Date(isoString): a timestamp string that does not parse gives an
\* Invalid Date object
ParseDate(ts) == IF ts.kind = "iso" THEN NewDate(ts.ms) ELSE InvalidDate


\* ------------------------------------------------- mockDataService.ts
clampToADCRange(value) == Max(ADC_MIN, Min(ADC_MAX, value))

\* Math.random() samples, in thousandths
RandomSamples == {0, 998}

\* generateRandomSensorData with the two Math.random() results r1, r2
generateRandomSensorData(r1, r2) ==
    [soilMoisture |-> clampToADCRange(MathFloor(800 * 1000 + r1 * 2000)),
     light        |-> clampToADCRange(MathFloor(2000 * 1000 + r2 * 2000))]

\* floor(Math.sin(index * 0.3) * 500) and floor(Math.cos(index * 0.2) * 800)
SoilWave == <<0, 147, 282, 391, 466, 498, 486, 431, 337, 213, 70, -79>>
LightWave == <<800, 784, 736, 660, 557, 432, 289, 135, -24, -182, -333, -471>>

\* generatePatternedSensorData(index) with the Math.random() result r (an
\* even number of thousandths, so that r * 1500 is whole and the floor of the
\* sum is the sum of the floors)
generatePatternedSensorData(index, r) ==
    [soilMoisture |-> clampToADCRange(800 + (r * 1500) \div 1000 + SoilWave[index + 1]),
     light        |-> clampToADCRange(2000 + (r * 1500) \div 1000 + LightWave[index + 1])]

\* the loop stopping one short (i > 0 for i >= 0): the point stamped "now"
\* is missing
generateMockHistoryDataShort(points, intervalSeconds, t, r) ==
    [k \in 1..Max(points - 1, 0) |->
        LET i == points - k
            sd == generatePatternedSensorData(i, r)
        IN [timestamp    |-> getTime(NewDate(t - i * intervalSeconds * 1000)),
            soilMoisture |-> sd.soilMoisture,
            light        |-> sd.light]]

\* the loop counting upwards (i = 0 first): the newest point comes first
generateMockHistoryDataNewestFirst(points, intervalSeconds, t, r) ==
    [k \in 1..Max(points, 0) |->
        LET i == k - 1
            sd == generatePatternedSensorData(i, r)
        IN [timestamp    |-> getTime(NewDate(t - i * intervalSeconds * 1000)),
            soilMoisture |-> sd.soilMoisture,
            light        |-> sd.light]]

\* generateMockHistoryData(points, intervalSeconds) called at time t: the loop
\* runs i = points-1 down to 0, so element k of the result has i = points - k
generateMockHistoryData(points, intervalSeconds, t, r) ==
    [k \in 1..Max(points, 0) |->
        LET i == points - k
            sd == generatePatternedSensorData(i, r)
        IN [timestamp    |-> getTime(NewDate(t - i * intervalSeconds * 1000)),
            soilMoisture |-> sd.soilMoisture,
            light        |-> sd.light]]

\* createHistoryPoint(sensorData, timestamp); the hook always passes a Date
createHistoryPoint(sd, timestamp) ==
    [timestamp    |-> getTime(timestamp),
     soilMoisture |-> sd.soilMoisture,
     light        |-> sd.light]

\* ---------------------------------------------------- esp32Service.ts
ConnectionErrorName == "ESP32ConnectionError"
TimeoutErrorName == "ESP32TimeoutError"
ParseErrorName == "ESP32ParseError"

Resolved(data) == [ok |-> TRUE, errName |-> "none", message |-> NullError, data |-> data]
NoData == [soilMoisture |-> 0, light |-> 0, receivedAt |-> NullDate, isESP32Online |-> FALSE]
Rejected(name, message) == [ok |-> FALSE, errName |-> name, message |-> message, data |-> NoData]

\* a JSON value in a numeric field: a number (kept in tenths) or anything else
Num(tenths) == [isNum |-> TRUE, tenths |-> tenths]
NotANumber == [isNum |-> FALSE, tenths |-> 0]

\* validateADCValue clamping from above only
validateADCValueNoFloor(value) == Min(4095, MathRound(value.tenths))

\* validateADCValue returning the rounded value without the clamp
validateADCValueUnclamped(value) == MathRound(value.tenths)

\* validateADCValue with the typeof check dropped: whatever arrives is taken
\* as a number
validADCUnchecked(value) == TRUE

\* validateADCValue: the typeof check, and the clamp of the rounded value
validADC(value) == value.isNum
validateADCValue(value) == Max(0, Min(4095, MathRound(value.tenths)))

\* parseResponse followed by transformBackendData, for a body that arrived
\* complete.  body.kind: "invalidJSON" (response.json() throws: ParseError),
\* "null" (JSON null: reading response.success throws a TypeError, which the
\* catch of fetchSensorData wraps in a ConnectionError), "object".
transformBackendData(body) ==
    IF body.kind = "invalidJSON"
    THEN Rejected(ParseErrorName, "Invalid JSON response from backend")
    ELSE IF body.kind = "null"
    THEN Rejected(ConnectionErrorName, "Failed to connect to backend API")
    ELSE IF ~body.success \/ ~body.hasLatest
    THEN Rejected(ParseErrorName,
                  IF body.error # NullError THEN body.error ELSE "No reading data available")
    ELSE IF ~validADC(body.soilValue)
    THEN Rejected(ParseErrorName, "Invalid soilValue value")
    ELSE IF ~validADC(body.ldrValue)
    THEN Rejected(ParseErrorName, "Invalid ldrValue value")
    ELSE Resolved([soilMoisture  |-> validateADCValue(body.soilValue),
                   light         |-> validateADCValue(body.ldrValue),
                   receivedAt    |-> IF body.timestamp.kind = "absent" THEN NullDate
                                     ELSE ParseDate(body.timestamp),
                   isESP32Online |-> body.deviceStatus = "Connected"])

\* -------------------------------------------------------- app.config.ts
SOIL_MOISTURE_THRESHOLDS == [good |-> 1500, okay |-> 2500]
LIGHT_THRESHOLDS == [good |-> 3000, okay |-> 1500]

\* getSoilMoistureCondition with strict comparisons
getSoilMoistureConditionStrict(value) ==
    IF value < SOIL_MOISTURE_THRESHOLDS.good THEN "Good"
    ELSE IF value < SOIL_MOISTURE_THRESHOLDS.okay THEN "Okay"
    ELSE "Bad"

getSoilMoistureCondition(value) ==
    IF value <= SOIL_MOISTURE_THRESHOLDS.good THEN "Good"
    ELSE IF value <= SOIL_MOISTURE_THRESHOLDS.okay THEN "Okay"
    ELSE "Bad"

\* getLightCondition with inclusive comparisons
getLightConditionInclusive(value) ==
    IF value <= LIGHT_THRESHOLDS.okay THEN "Bad"
    ELSE IF value <= LIGHT_THRESHOLDS.good THEN "Okay"
    ELSE "Good"

getLightCondition(value) ==
    IF value < LIGHT_THRESHOLDS.okay THEN "Bad"
    ELSE IF value < LIGHT_THRESHOLDS.good THEN "Okay"
    ELSE "Good"

getSensorCondition(type, value) ==
    IF type = "soil" THEN getSoilMoistureCondition(value) ELSE getLightCondition(value)

\* --------------------------------------------------- backend responses
ObjectBody(success, error, hasLatest, soil, ldr, ts, status) ==
    [kind |-> "object", success |-> success, error |-> error, hasLatest |-> hasLatest,
     soilValue |-> soil, ldrValue |-> ldr, timestamp |-> ts, deviceStatus |-> status]
NoTimestamp == [kind |-> "absent", ms |-> 0]
NonObjectBody(kind) ==
    [kind |-> kind, success |-> FALSE, error |-> NullError, hasLatest |-> FALSE,
     soilValue |-> NotANumber, ldrValue |-> NotANumber, timestamp |-> NoTimestamp,
     deviceStatus |-> "Disconnected"]

IsoTimestamp(ms) == [kind |-> "iso", ms |-> ms]
GarbageTimestamp == [kind |-> "garbage", ms |-> 0]

\* Bodies a backend sends at local time t.  Readings: in range with a
\* fraction (2066.6, 2858), out of range on both sides (5000, -10).
\* latest.timestamp: the device's clock (behind the browser's), missing, or a
\* string that is no date.
SuccessBodies(t) ==
    { ObjectBody(TRUE, NullError, TRUE, Num(20666), Num(28580), IsoTimestamp(t - TimeStep), "Connected"),
      ObjectBody(TRUE, NullError, TRUE, Num(50000), Num(-100), IsoTimestamp(t - TimeStep), "Disconnected"),
      ObjectBody(TRUE, NullError, TRUE, Num(20666), Num(28580), NoTimestamp, "Connected"),
      ObjectBody(TRUE, NullError, TRUE, Num(50000), Num(-100), GarbageTimestamp, "Connected") }
FailureBodies ==
    { NonObjectBody("invalidJSON"), NonObjectBody("null"),
      ObjectBody(FALSE, "Database unavailable", FALSE, NotANumber, NotANumber, NoTimestamp, "Disconnected"),
      ObjectBody(TRUE, NullError, TRUE, NotANumber, Num(28580), NoTimestamp, "Connected"),
      ObjectBody(TRUE, NullError, TRUE, Num(20666), NotANumber, NoTimestamp, "Connected") }
Bodies(t) == SuccessBodies(t) \cup FailureBodies

\* ------------------------------------------------ webSocketService.ts
\* The service object as a record: sockets holds the readyState of every
\* WebSocket created ("connecting", "open", "closing", "closed"), current
\* is the index of this.ws (0 for null), state is _connectionState,
\* lastEvent what notifyListeners passed last, logged whether handleMessage
\* has written to console.error.  gaveUp, disconnected and calls are history:
\* scheduleReconnect returned at its guard and connect() was not called by
\* the application since; disconnect() was called and connect() was not
\* called by the application since; calls of the application so far.
WsNoEvent == [type |-> "none", soilMoisture |-> NotANumber, light |-> NotANumber]
WsEvent(type) == [WsNoEvent EXCEPT !.type = type]
WsDataEvent(data) ==
    [type |-> "data", soilMoisture |-> data.soilMoisture, light |-> data.light]

WsInitial ==
    [sockets |-> <<>>, current |-> 0, reconnectAttempts |-> 0,
     timer |-> "none", due |-> 0,
     state |-> [isConnected |-> FALSE, lastUpdate |-> NullDate,
                isChecking |-> FALSE, error |-> NullError],
     lastEvent |-> WsNoEvent, logged |-> FALSE,
     gaveUp |-> FALSE, disconnected |-> FALSE, calls |-> 0]

\* messages a server sends: a reading in range, one out of range on both
\* sides, one with a fraction, one with a string for either number, JSON
\* null, and text that is no JSON
WsObject(soil, light) == [kind |-> "object", soilMoisture |-> soil, light |-> light]
WsPayloads ==
    { WsObject(Num(20670), Num(28580)),
      WsObject(Num(50000), Num(-100)),
      WsObject(Num(20666), Num(28580)),
      WsObject(NotANumber, Num(28580)),
      WsObject(Num(20670), NotANumber),
      [kind |-> "null", soilMoisture |-> NotANumber, light |-> NotANumber],
      [kind |-> "invalidJSON", soilMoisture |-> NotANumber, light |-> NotANumber] }

\* connect() that opens a new socket even when the current one is open
connectAlways(w) ==
    [w EXCEPT !.state.isChecking = TRUE,
              !.lastEvent = WsEvent("connect"),
              !.sockets = Append(@, "connecting"),
              !.current = Len(w.sockets) + 1]

connect(w) ==
    IF w.current # 0 /\ w.sockets[w.current] = "open"
    THEN w
    ELSE [w EXCEPT !.state.isChecking = TRUE,
                   !.lastEvent = WsEvent("connect"),
                   !.sockets = Append(@, "connecting"),
                   !.current = Len(w.sockets) + 1]

clearReconnectTimeout(w) == [w EXCEPT !.timer = "none"]

\* scheduleReconnect counting with > for >=: one attempt too many
scheduleReconnectOneMore(w, t) ==
    IF w.reconnectAttempts > maxReconnectAttempts
    THEN [w EXCEPT !.gaveUp = TRUE]
    ELSE [clearReconnectTimeout(w) EXCEPT !.timer = "armed", !.due = t + reconnectInterval]

scheduleReconnect(w, t) ==
    IF w.reconnectAttempts >= maxReconnectAttempts
    THEN [w EXCEPT !.gaveUp = TRUE]
    ELSE [clearReconnectTimeout(w) EXCEPT !.timer = "armed", !.due = t + reconnectInterval]

\* the callback of the reconnect timer
reconnectCallback(w) == connect([w EXCEPT !.reconnectAttempts = @ + 1, !.timer = "fired"])

disconnect(w) ==
    LET c == clearReconnectTimeout(w) IN
    [c EXCEPT !.reconnectAttempts = 0,
              !.sockets = IF w.current # 0 /\ w.sockets[w.current] \in {"connecting", "open"}
                          THEN [@ EXCEPT ![w.current] = "closing"] ELSE @,
              !.current = 0,
              !.state = [isConnected |-> FALSE, lastUpdate |-> w.state.lastUpdate,
                         isChecking |-> FALSE, error |-> NullError]]

onopen(w, t) ==
    [w EXCEPT !.reconnectAttempts = 0,
              !.state = [isConnected |-> TRUE, lastUpdate |-> NewDate(t),
                         isChecking |-> FALSE, error |-> NullError],
              !.lastEvent = WsEvent("connect")]

onclose(w, t) ==
    scheduleReconnect([w EXCEPT !.state.isConnected = FALSE,
                                !.lastEvent = WsEvent("disconnect")], t)

handleError(w, message) ==
    [w EXCEPT !.state.isConnected = FALSE, !.state.isChecking = FALSE,
              !.state.error = message,
              !.lastEvent = WsEvent("error")]

\* handleMessage passing the fields through validateADCValue
handleMessageValidated(w, payload, t) ==
    IF payload.kind = "object" /\ validADC(payload.soilMoisture) /\ validADC(payload.light)
    THEN [w EXCEPT !.state.lastUpdate = NewDate(t),
                   !.lastEvent = WsDataEvent(
                        [soilMoisture |-> Num(10 * validateADCValue(payload.soilMoisture)),
                         light |-> Num(10 * validateADCValue(payload.light))])]
    ELSE w

\* handleMessage reporting what it cannot read through handleError
handleMessageReportsError(w, payload, t) ==
    IF payload.kind = "object" /\ payload.soilMoisture.isNum /\ payload.light.isNum
    THEN [w EXCEPT !.state.lastUpdate = NewDate(t),
                   !.lastEvent = WsDataEvent(payload)]
    ELSE handleError([w EXCEPT !.logged = TRUE], "Invalid sensor data format")

\* handleMessage: JSON.parse, the two typeof checks, and the data event with
\* the parsed object as it is; whatever throws is logged and dropped
handleMessage(w, payload, t) ==
    IF payload.kind = "object" /\ payload.soilMoisture.isNum /\ payload.light.isNum
    THEN [w EXCEPT !.state.lastUpdate = NewDate(t),
                   !.lastEvent = WsDataEvent(payload)]
    ELSE [w EXCEPT !.logged = TRUE]

\* ------------------------------------------------------------- state
VARIABLES
    dataSourceMode,   \* DATA_SOURCE_MODE, fixed for the session
    now,              \* the clock, in ms
    sensorData,       \* useState: current reading
    historyData,      \* useState: history points, oldest first
    connectionState,  \* useState: isConnected, lastUpdate, isChecking, error
    isMountedRef,     \* useRef(true)
    initialFetchDone, \* useRef(false)
    intervalId,       \* "none" before the effect ran, "armed", "cleared"
    nextTick,         \* when the interval timer is due next
    abortController,  \* ESP32Service.abortController: 0 (null) or the call that made it
    cycles,           \* per fetchData invocation: where it stands
    nCycles,          \* invocations that got past the mounted guard
    lastDone,         \* history: the invocation that returned last, and how
    seededBy,         \* history: the invocations that executed the fallback seeding
    lastReceipt,      \* history: receipt time of the last success applied to state
    appended,         \* history: every point given to the buffer so far, none evicted
    call,             \* a call of a pure function: its argument and its result
    ws                \* the WebSocketService object, its sockets and its last event

vars == <<dataSourceMode, now, sensorData, historyData, connectionState, isMountedRef,
          initialFetchDone, intervalId, nextTick, abortController, cycles, nCycles,
          lastDone, seededBy, lastReceipt, appended, call, ws>>

CycleIds == 1..MaxCycles
IdleCycle ==
    [status |-> "idle", origin |-> "none", captured |-> NullDate, dispatchedAt |-> 0,
     timer |-> "none", abortedBy |-> "none"]
NothingDone ==
    [cycle |-> 0, outcome |-> "none", errName |-> "none", abortedBy |-> "none", data |-> NoData]

InFlight(cy) == cy.status \in {"fetching", "parsing"}
\* a rejection caused by an abort is queued as a microtask
NoMicrotask == \A c \in CycleIds : cycles[c].status \notin {"abortedFetching", "abortedParsing"}

\* no pure function has been called
NoCall ==
    [fn |-> "none", kind |-> "none", arg |-> 0, applied |-> 0, res |-> 0, again |-> 0,
     cond |-> "none", interval |-> 0, points |-> <<>>]

\* the hook after its first render
HookInit ==
    /\ now = StartTime
    /\ sensorData = DEFAULT_MOCK_DATA
    /\ historyData = <<>>
    /\ connectionState = [isConnected |-> FALSE, lastUpdate |-> NullDate,
                          isChecking |-> TRUE, error |-> NullError]
    /\ isMountedRef = TRUE
    /\ initialFetchDone = FALSE
    /\ intervalId = "none"
    /\ nextTick = 0
    /\ abortController = 0
    /\ cycles = [c \in CycleIds |-> IdleCycle]
    /\ nCycles = 0
    /\ lastDone = NothingDone
    /\ seededBy = <<>>
    /\ lastReceipt = NullDate

Init ==
    /\ dataSourceMode \in {"esp32", "mock"}
    /\ HookInit
    /\ appended = <<>>
    /\ call = NoCall
    /\ ws = WsInitial

\* ------------------------------------------------- ESP32Service steps
\* AbortController.abort() on the controller that call `target` created: the
\* pending fetch (or body read) of that call rejects; a settled call ignores it
signalAbort(cs, target, by) ==
    IF target = 0 THEN cs
    ELSE IF cs[target].status = "fetching"
    THEN [cs EXCEPT ![target].status = "abortedFetching", ![target].abortedBy = by]
    ELSE IF cs[target].status = "parsing"
    THEN [cs EXCEPT ![target].status = "abortedParsing", ![target].abortedBy = by]
    ELSE cs

\* abort() that forgets the pending request instead of cancelling it
abortWithoutCancel(cs) == cs

\* ESP32Service.abort(): aborts the controller in the field, if any (the
\* field itself is then overwritten by the caller, fetchSensorData)
abort(cs) == IF abortController # 0 THEN signalAbort(cs, abortController, "abort") ELSE cs

\* fetchSensorData up to its first await: abort the pending request, make a
\* controller, arm the timeout timer, issue the request
fetchSensorData(c, origin, captured) ==
    /\ abortController' = c
    /\ cycles' = [abort(cycles) EXCEPT ![c] =
                    [status |-> "fetching", origin |-> origin, captured |-> captured,
                     dispatchedAt |-> now, timer |-> "armed", abortedBy |-> "none"]]

\* ------------------------------------------------------- hook steps
\* slice(0, n) for slice(-n): the first n elements are kept
SliceFirst(s, n) == IF Len(s) <= n THEN s ELSE SubSeq(s, 1, n)

\* Array.prototype.slice(-n)
SliceLast(s, n) == IF Len(s) <= n THEN s ELSE SubSeq(s, Len(s) - n + 1, Len(s))

\* addHistoryPoint without the slice
addHistoryPointUnbounded(prev, data, timestamp) ==
    Append(prev, createHistoryPoint(data, timestamp))

\* addHistoryPoint: the functional update applied to the previous history
addHistoryPoint(prev, data, timestamp) ==
    SliceLast(Append(prev, createHistoryPoint(data, timestamp)), HISTORY_MAX_POINTS)

\* the success branch taking every HTTP success for an online device
SuccessBranchAlwaysOnline(newData, isESP32Online, receivedAt) ==
    IF ~isMountedRef
    THEN UNCHANGED <<sensorData, historyData, connectionState, initialFetchDone, seededBy>>
    ELSE LET nowDate == NewDate(now) IN
         /\ sensorData' = newData
         /\ historyData' = addHistoryPoint(historyData, newData, DateOr(receivedAt, nowDate))
         /\ connectionState' =
                [isConnected |-> TRUE,
                 lastUpdate  |-> DateOr(receivedAt, nowDate),
                 isChecking  |-> FALSE,
                 error       |-> NullError]
         /\ initialFetchDone' = TRUE
         /\ UNCHANGED seededBy

\* the success branch leaving lastUpdate as it was
SuccessBranchKeepsLastUpdate(newData, isESP32Online, receivedAt) ==
    IF ~isMountedRef
    THEN UNCHANGED <<sensorData, historyData, connectionState, initialFetchDone, seededBy>>
    ELSE LET nowDate == NewDate(now) IN
         /\ sensorData' = newData
         /\ historyData' = addHistoryPoint(historyData, newData, DateOr(receivedAt, nowDate))
         /\ connectionState' =
                [isConnected |-> isESP32Online,
                 lastUpdate  |-> connectionState.lastUpdate,
                 isChecking  |-> FALSE,
                 error       |-> IF isESP32Online THEN NullError ELSE OfflineMessage]
         /\ initialFetchDone' = TRUE
         /\ UNCHANGED seededBy

\* the success branch without its mounted guard
SuccessBranchUnguarded(newData, isESP32Online, receivedAt) ==
    LET nowDate == NewDate(now) IN
    /\ sensorData' = newData
    /\ historyData' = addHistoryPoint(historyData, newData, DateOr(receivedAt, nowDate))
    /\ connectionState' =
           [isConnected |-> isESP32Online,
            lastUpdate  |-> DateOr(receivedAt, nowDate),
            isChecking  |-> FALSE,
            error       |-> IF isESP32Online THEN NullError ELSE OfflineMessage]
    /\ initialFetchDone' = TRUE
    /\ UNCHANGED seededBy

\* the success branch reporting an offline device without a message
SuccessBranchNoOfflineError(newData, isESP32Online, receivedAt) ==
    IF ~isMountedRef
    THEN UNCHANGED <<sensorData, historyData, connectionState, initialFetchDone, seededBy>>
    ELSE LET nowDate == NewDate(now) IN
         /\ sensorData' = newData
         /\ historyData' = addHistoryPoint(historyData, newData, DateOr(receivedAt, nowDate))
         /\ connectionState' =
                [isConnected |-> isESP32Online,
                 lastUpdate  |-> DateOr(receivedAt, nowDate),
                 isChecking  |-> FALSE,
                 error       |-> NullError]
         /\ initialFetchDone' = TRUE
         /\ UNCHANGED seededBy

\* the success branch appending the reading of the previous render
SuccessBranchStaleHistory(newData, isESP32Online, receivedAt) ==
    IF ~isMountedRef
    THEN UNCHANGED <<sensorData, historyData, connectionState, initialFetchDone, seededBy>>
    ELSE LET nowDate == NewDate(now) IN
         /\ sensorData' = newData
         /\ historyData' = addHistoryPoint(historyData, sensorData, DateOr(receivedAt, nowDate))
         /\ connectionState' =
                [isConnected |-> isESP32Online,
                 lastUpdate  |-> DateOr(receivedAt, nowDate),
                 isChecking  |-> FALSE,
                 error       |-> IF isESP32Online THEN NullError ELSE OfflineMessage]
         /\ initialFetchDone' = TRUE
         /\ UNCHANGED seededBy

\* fetchData after the data is there: the mounted guard, the three state
\* updates, and the flag set after the try block
SuccessBranch(newData, isESP32Online, receivedAt) ==
    IF ~isMountedRef
    THEN UNCHANGED <<sensorData, historyData, connectionState, initialFetchDone, seededBy>>
    ELSE LET nowDate == NewDate(now) IN
         /\ sensorData' = newData
         /\ historyData' = addHistoryPoint(historyData, newData, DateOr(receivedAt, nowDate))
         /\ connectionState' =
                [isConnected |-> isESP32Online,
                 lastUpdate  |-> DateOr(receivedAt, nowDate),
                 isChecking  |-> FALSE,
                 error       |-> IF isESP32Online THEN NullError ELSE OfflineMessage]
         /\ initialFetchDone' = TRUE
         /\ UNCHANGED seededBy

\* the catch block without the fallback seeding
CatchBranchNoSeeding(c, captured, message) ==
    IF ~isMountedRef
    THEN UNCHANGED <<sensorData, historyData, connectionState, initialFetchDone, seededBy>>
    ELSE /\ connectionState' =
                [isConnected |-> FALSE, lastUpdate |-> captured,
                 isChecking |-> FALSE, error |-> message]
         /\ UNCHANGED <<sensorData, historyData, seededBy>>
         /\ initialFetchDone' = TRUE

\* the catch block seeding on every failure, whatever the flag says
CatchBranchAlwaysSeeds(c, captured, message) ==
    IF ~isMountedRef
    THEN UNCHANGED <<sensorData, historyData, connectionState, initialFetchDone, seededBy>>
    ELSE /\ connectionState' =
                [isConnected |-> FALSE, lastUpdate |-> captured,
                 isChecking |-> FALSE, error |-> message]
         /\ sensorData' = DEFAULT_MOCK_DATA
         /\ \E r \in RandomSamples :
                historyData' = generateMockHistoryData(FallbackPoints, updateInterval, now, r)
         /\ seededBy' = Append(seededBy, c)
         /\ initialFetchDone' = TRUE

\* the catch block spreading the previous connection state and setting only
\* the error, so that isChecking stays as the dispatch left it
CatchBranchKeepsChecking(c, captured, message) ==
    IF ~isMountedRef
    THEN UNCHANGED <<sensorData, historyData, connectionState, initialFetchDone, seededBy>>
    ELSE /\ connectionState' = [connectionState EXCEPT !.isConnected = FALSE, !.error = message]
         /\ IF ~initialFetchDone
            THEN /\ sensorData' = DEFAULT_MOCK_DATA
                 /\ \E r \in RandomSamples :
                        historyData' = generateMockHistoryData(FallbackPoints, updateInterval, now, r)
                 /\ seededBy' = Append(seededBy, c)
            ELSE UNCHANGED <<sensorData, historyData, seededBy>>
         /\ initialFetchDone' = TRUE

\* the catch block when the flag is set inside the try block only, so that
\* a failure does not mark the initial fetch as done
CatchBranchFlagOnSuccessOnly(c, captured, message) ==
    IF ~isMountedRef
    THEN UNCHANGED <<sensorData, historyData, connectionState, initialFetchDone, seededBy>>
    ELSE /\ connectionState' =
                [isConnected |-> FALSE, lastUpdate |-> captured,
                 isChecking |-> FALSE, error |-> message]
         /\ IF ~initialFetchDone
            THEN /\ sensorData' = DEFAULT_MOCK_DATA
                 /\ \E r \in RandomSamples :
                        historyData' = generateMockHistoryData(FallbackPoints, updateInterval, now, r)
                 /\ seededBy' = Append(seededBy, c)
            ELSE UNCHANGED <<sensorData, historyData, seededBy>>
         /\ UNCHANGED initialFetchDone

\* the catch block of fetchData for invocation c, whose closure captured
\* connectionState.lastUpdate as `captured`, and the flag set after it
CatchBranch(c, captured, message) ==
    IF ~isMountedRef
    THEN UNCHANGED <<sensorData, historyData, connectionState, initialFetchDone, seededBy>>
    ELSE /\ connectionState' =
                [isConnected |-> FALSE, lastUpdate |-> captured,
                 isChecking |-> FALSE, error |-> message]
         /\ IF ~initialFetchDone
            THEN /\ sensorData' = DEFAULT_MOCK_DATA
                 /\ \E r \in RandomSamples :
                        historyData' = generateMockHistoryData(FallbackPoints, updateInterval, now, r)
                 /\ seededBy' = Append(seededBy, c)
            ELSE UNCHANGED <<sensorData, historyData, seededBy>>
         /\ initialFetchDone' = TRUE

\* the record of an invocation that has returned without clearing its timer
FinishedKeepsTimer(cy) ==
    [cy EXCEPT !.status = "done"]

\* the record of an invocation that has returned
Finished(cy) ==
    [IdleCycle EXCEPT !.status = "done", !.timer = IF cy.timer = "armed" THEN "cleared" ELSE cy.timer]

\* fetchSensorData settles with `out` (its catch clears the timer) and the
\* awaiting fetchData of invocation c continues, in the same microtask chain
Complete(c, out) ==
    /\ IF out.ok
       THEN SuccessBranch([soilMoisture |-> out.data.soilMoisture, light |-> out.data.light],
                          out.data.isESP32Online, out.data.receivedAt)
       ELSE CatchBranch(c, cycles[c].captured, out.message)
    /\ lastReceipt' = IF out.ok /\ isMountedRef
                      THEN DateOr(out.data.receivedAt, NewDate(now)) ELSE lastReceipt
    /\ lastDone' = [cycle |-> c,
                    outcome |-> IF ~isMountedRef THEN "discarded"
                                ELSE IF out.ok THEN "success" ELSE "failure",
                    errName |-> out.errName,
                    abortedBy |-> cycles[c].abortedBy,
                    data |-> out.data]
    /\ cycles' = [cycles EXCEPT ![c] = Finished(@)]
    /\ UNCHANGED <<appended, call, ws, dataSourceMode, now, isMountedRef, intervalId, nextTick, abortController, nCycles>>

\* step 1 replacing the connection state instead of spreading the previous one
CheckingStateFromScratch(prev) ==
    [isConnected |-> FALSE, lastUpdate |-> NullDate, isChecking |-> TRUE, error |-> NullError]

\* the functional update of step 1: ({...prev, isChecking: true, error: null})
CheckingState(prev) == [prev EXCEPT !.isChecking = TRUE, !.error = NullError]

\* fetchData without its mounted guard
fetchDataUnguarded(origin, captured) ==
    LET c == nCycles + 1 IN
    /\ nCycles' = c
    /\ IF dataSourceMode = "mock"
       THEN /\ \E r1 \in RandomSamples, r2 \in RandomSamples :
                 LET newData == generateRandomSensorData(r1, r2) IN
                   /\ SuccessBranch(newData, TRUE, NewDate(now))
                   /\ lastDone' = [NothingDone EXCEPT
                                     !.cycle = c, !.outcome = "success",
                                     !.data = [soilMoisture |-> newData.soilMoisture,
                                               light |-> newData.light,
                                               receivedAt |-> NewDate(now),
                                               isESP32Online |-> TRUE]]
            /\ lastReceipt' = NewDate(now)
            /\ cycles' = [cycles EXCEPT ![c] = Finished(@)]
            /\ UNCHANGED abortController
       ELSE /\ connectionState' = CheckingState(connectionState)
            /\ UNCHANGED <<sensorData, historyData, initialFetchDone, seededBy,
                           lastReceipt, lastDone>>
            /\ fetchSensorData(c, origin, captured)

\* fetchData from its start to its first await (esp32 mode) or to its end
\* (mock mode, where nothing is awaited).  `captured` is the lastUpdate the
\* closure in use was created with.
\* An invocation after teardown returns at the mounted guard; the history
\* variable lastDone records that return.
fetchData(origin, captured) ==
    IF ~isMountedRef
    THEN /\ UNCHANGED <<sensorData, historyData, connectionState, initialFetchDone, seededBy,
                        lastReceipt, abortController, cycles, nCycles>>
         /\ lastDone' = [NothingDone EXCEPT !.outcome = "unmounted"]
    ELSE LET c == nCycles + 1 IN
         /\ nCycles' = c
         /\ IF dataSourceMode = "mock"
            THEN /\ \E r1 \in RandomSamples, r2 \in RandomSamples :
                      LET newData == generateRandomSensorData(r1, r2) IN
                        /\ SuccessBranch(newData, TRUE, NewDate(now))
                        /\ lastDone' = [NothingDone EXCEPT
                                          !.cycle = c, !.outcome = "success",
                                          !.data = [soilMoisture |-> newData.soilMoisture,
                                                    light |-> newData.light,
                                                    receivedAt |-> NewDate(now),
                                                    isESP32Online |-> TRUE]]
                 /\ lastReceipt' = NewDate(now)
                 /\ cycles' = [cycles EXCEPT ![c] = Finished(@)]
                 /\ UNCHANGED abortController
            ELSE /\ connectionState' = CheckingState(connectionState)
                 /\ UNCHANGED <<sensorData, historyData, initialFetchDone, seededBy,
                                lastReceipt, lastDone>>
                 /\ fetchSensorData(c, origin, captured)


\* ----------------------------------------------------------- actions
\* the effect of useEffect: first fetch, then setInterval.  The closure is
\* the first render's, whose connectionState.lastUpdate is null.
Mount ==
    /\ intervalId = "none"
    /\ isMountedRef' = TRUE
    /\ fetchData("initial", NullDate)
    /\ intervalId' = "armed"
    /\ nextTick' = now + updateInterval * 1000
    /\ UNCHANGED <<appended, call, ws, dataSourceMode, now>>

\* an interval callback that skips the tick while a cycle is pending
IntervalTickWhenIdle ==
    /\ intervalId = "armed"
    /\ now >= nextTick
    /\ NoMicrotask
    /\ nCycles < MaxCycles
    /\ \A c \in CycleIds : ~InFlight(cycles[c])
    /\ fetchData("timer", NullDate)
    /\ nextTick' = nextTick + updateInterval * 1000
    /\ UNCHANGED <<appended, call, ws, dataSourceMode, now, isMountedRef, intervalId>>

\* the interval timer fires: the callback is the first render's fetchData
IntervalTick ==
    /\ intervalId = "armed"
    /\ now >= nextTick
    /\ NoMicrotask
    /\ nCycles < MaxCycles
    /\ fetchData("timer", NullDate)
    /\ nextTick' = nextTick + updateInterval * 1000
    /\ UNCHANGED <<appended, call, ws, dataSourceMode, now, isMountedRef, intervalId>>

\* refresh() that also restarts the interval timer
RefreshRestartsTimer ==
    /\ intervalId # "none"
    /\ NoMicrotask
    /\ isMountedRef => nCycles < MaxCycles
    /\ fetchData("refresh", connectionState.lastUpdate)
    /\ nextTick' = now + updateInterval * 1000
    /\ UNCHANGED <<appended, call, ws, dataSourceMode, now, isMountedRef, intervalId>>

\* refresh(): the fetchData of the latest render, whose closure holds the
\* lastUpdate that render saw
Refresh ==
    /\ intervalId # "none"
    /\ NoMicrotask
    /\ isMountedRef => nCycles < MaxCycles
    /\ fetchData("refresh", connectionState.lastUpdate)
    /\ UNCHANGED <<appended, call, ws, dataSourceMode, now, isMountedRef, intervalId, nextTick>>

\* the cleanup of the effect
Teardown ==
    /\ intervalId = "armed"
    /\ NoMicrotask
    /\ isMountedRef' = FALSE
    /\ intervalId' = "cleared"
    /\ UNCHANGED <<appended, call, ws, dataSourceMode, now, sensorData, historyData, connectionState,
                   initialFetchDone, nextTick, abortController, cycles, nCycles,
                   lastDone, seededBy, lastReceipt>>

\* fetch() rejects: the network failed
FetchRejects(c) ==
    /\ cycles[c].status = "fetching"
    /\ NoMicrotask
    /\ Complete(c, Rejected(ConnectionErrorName, "Failed to connect to backend API"))

\* fetch() resolves with a status that is not 2xx
ResponseNotOk(c) ==
    /\ cycles[c].status = "fetching"
    /\ NoMicrotask
    /\ Complete(c, Rejected(ConnectionErrorName, "HTTP 500: Internal Server Error"))

\* fetch() resolves with a 2xx status: the timer is cleared, the body awaited
ResponseOk(c) ==
    /\ cycles[c].status = "fetching"
    /\ NoMicrotask
    /\ cycles' = [cycles EXCEPT ![c].status = "parsing", ![c].timer = "cleared"]
    /\ UNCHANGED <<appended, call, ws, dataSourceMode, now, sensorData, historyData, connectionState,
                   isMountedRef, initialFetchDone, intervalId, nextTick, abortController,
                   nCycles, lastDone, seededBy, lastReceipt>>

\* the body has arrived in full: response.json() settles
BodyArrives(c) ==
    /\ cycles[c].status = "parsing"
    /\ NoMicrotask
    /\ \E body \in Bodies(now) : Complete(c, transformBackendData(body))

\* the timeout timer of call c expires: it aborts whatever controller the
\* field holds at that moment
TimeoutFires(c) ==
    /\ cycles[c].timer = "armed"
    /\ now >= cycles[c].dispatchedAt + timeout
    /\ NoMicrotask
    /\ cycles' = [signalAbort(cycles, abortController,
                              IF abortController = c THEN "ownTimer" ELSE "otherTimer")
                    EXCEPT ![c].timer = "fired"]
    /\ UNCHANGED <<appended, call, ws, dataSourceMode, now, sensorData, historyData, connectionState,
                   isMountedRef, initialFetchDone, intervalId, nextTick, abortController,
                   nCycles, lastDone, seededBy, lastReceipt>>

\* the microtask of an aborted call: an abort while fetch() was pending is
\* an AbortError, reported as a timeout; an abort while the body was read
\* makes response.json() throw, which parseResponse reports as invalid JSON
AbortRejection(c) ==
    \/ /\ cycles[c].status = "abortedFetching"
       /\ Complete(c, Rejected(TimeoutErrorName, "Request timed out after 15000ms"))
    \/ /\ cycles[c].status = "abortedParsing"
       /\ Complete(c, Rejected(ParseErrorName, "Invalid JSON response from backend"))

\* a timer that is due fires before the clock moves on
TimerDue ==
    \/ intervalId = "armed" /\ now >= nextTick
    \/ \E c \in CycleIds : cycles[c].timer = "armed" /\ now >= cycles[c].dispatchedAt + timeout

Advance ==
    /\ intervalId # "none"
    /\ NoMicrotask
    /\ ~TimerDue
    /\ now < StartTime + MaxTicks * TimeStep
    /\ now' = now + TimeStep
    /\ UNCHANGED <<appended, call, ws, dataSourceMode, sensorData, historyData, connectionState, isMountedRef,
                   initialFetchDone, intervalId, nextTick, abortController, cycles, nCycles,
                   lastDone, seededBy, lastReceipt>>

Next ==
    \/ Mount
    \/ IntervalTick
    \/ Refresh
    \/ Teardown
    \/ \E c \in CycleIds : FetchRejects(c)
    \/ \E c \in CycleIds : ResponseNotOk(c)
    \/ \E c \in CycleIds : ResponseOk(c)
    \/ \E c \in CycleIds : BodyArrives(c)
    \/ \E c \in CycleIds : TimeoutFires(c)
    \/ \E c \in CycleIds : AbortRejection(c)
    \/ Advance

Spec == Init /\ [][Next]_vars

\* The session under the scheduling the event loop guarantees: the effect
\* runs after the first render, time passes, a timer that is due fires and a
\* queued microtask runs.  Nothing is assumed of the network, of refresh()
\* or of the teardown.
FairSpec ==
    /\ Spec
    /\ WF_vars(Mount)
    /\ WF_vars(Advance)
    /\ WF_vars(IntervalTick)
    /\ WF_vars(\E c \in CycleIds : TimeoutFires(c))
    /\ WF_vars(\E c \in CycleIds : AbortRejection(c))

\* ------------------------------------- a session with a slow backend
\* The backend answers every request with a 2xx status and a well-formed
\* body, SlowDelay after the request was sent: later than the next tick of
\* the interval timer, sooner than the timeout of the request.
SlowDelay == updateInterval * 1000 + 1

SlowInit ==
    /\ dataSourceMode = "esp32"
    /\ HookInit
    /\ appended = <<>>
    /\ call = NoCall
    /\ ws = WsInitial

\* the answer to request c is there
SlowResponseDue(c) ==
    \/ cycles[c].status = "fetching" /\ now >= cycles[c].dispatchedAt + SlowDelay
    \/ cycles[c].status = "parsing"

\* fetch() of call c resolves, SlowDelay after the request was sent
SlowResponseOk(c) ==
    /\ SlowResponseDue(c)
    /\ ResponseOk(c)

\* the body is one of a reading
SlowBodyArrives(c) ==
    /\ BodyArrives(c)
    /\ lastDone'.errName = "none"

\* the microtask of a call aborted by the next one, which finds it waiting
\* for fetch(): no answer is there before the next call
SlowAbortRejection(c) ==
    /\ cycles[c].status = "abortedFetching"
    /\ AbortRejection(c)

\* the clock moves on when no answer is due
SlowAdvance ==
    /\ \A c \in CycleIds : ~SlowResponseDue(c)
    /\ Advance

\* The session goes on after MaxCycles calls: once every call but the last
\* has returned, the last call is renamed call 1 and the clock is read from
\* the tick before, so that the interval timer can tick for ever.  What the
\* hook has stored keeps its timestamps.
SlowRecycle ==
    /\ intervalId = "armed"
    /\ NoMicrotask
    /\ nCycles = MaxCycles
    /\ \A c \in CycleIds \ {nCycles} : cycles[c].status = "done"
    /\ LET shift == nextTick - updateInterval * 1000 - StartTime
           last == cycles[nCycles] IN
         /\ now' = now - shift
         /\ nextTick' = nextTick - shift
         /\ cycles' = [c \in CycleIds |->
                         IF c # 1 THEN IdleCycle
                         ELSE IF last.status = "done" THEN last
                         ELSE [last EXCEPT !.dispatchedAt = @ - shift]]
    /\ nCycles' = 1
    /\ abortController' = 1
    /\ lastDone' = [lastDone EXCEPT !.cycle = IF @ = nCycles THEN 1 ELSE 0]
    /\ UNCHANGED <<appended, call, ws, dataSourceMode, sensorData, historyData, connectionState,
                   isMountedRef, initialFetchDone, intervalId, seededBy, lastReceipt>>

SlowNext ==
    \/ Mount
    \/ IntervalTick
    \/ Refresh
    \/ Teardown
    \/ \E c \in CycleIds : SlowResponseOk(c)
    \/ \E c \in CycleIds : SlowBodyArrives(c)
    \/ \E c \in CycleIds : SlowAbortRejection(c)
    \/ SlowAdvance
    \/ SlowRecycle

\* The scheduling of the event loop, and the backend answering in time.
\* Time passes and a due timer fires however often refresh() is called, which
\* is strong fairness: each call of refresh() queues a microtask, during
\* which neither is enabled.
SlowSpec ==
    /\ SlowInit /\ [][SlowNext]_vars
    /\ WF_vars(Mount)
    /\ SF_vars(SlowAdvance)
    /\ SF_vars(IntervalTick)
    /\ WF_vars(SlowRecycle)
    /\ WF_vars(\E c \in CycleIds : SlowResponseOk(c))
    /\ WF_vars(\E c \in CycleIds : SlowBodyArrives(c))
    /\ WF_vars(\E c \in CycleIds : SlowAbortRejection(c))

\* ------------------------------------------- calls of the pure functions
\* The integers a backend can send in soilValue or ldrValue, and the ADC
\* values the classifiers are given.
FetchedIntegers == (ADC_MIN - Margin)..(ADC_MAX + Margin)
ADCValues == ADC_MIN..ADC_MAX

\* arguments of generateMockHistoryData: counts from -1 up, and the default
\* interval next to a one-second one
PointCounts == (0 - 1)..MaxPoints
IntervalSeconds == {1, updateInterval}

PureCalls ==
    { [NoCall EXCEPT !.fn = "validateADCValue", !.arg = v] : v \in FetchedIntegers }
    \cup { [NoCall EXCEPT !.fn = f, !.arg = v] :
             f \in {"getSoilMoistureCondition", "getLightCondition"}, v \in ADCValues }
    \cup { [NoCall EXCEPT !.fn = "getSensorCondition", !.kind = k, !.arg = v] :
             k \in {"soil", "light"}, v \in ADCValues }
    \cup { [NoCall EXCEPT !.fn = "generateMockHistoryData", !.arg = n, !.interval = s] :
             n \in PointCounts, s \in IntervalSeconds }

PureInit ==
    /\ dataSourceMode = "esp32"
    /\ HookInit
    /\ appended = <<>>
    /\ call \in PureCalls
    /\ ws = WsInitial

PureFrame ==
    UNCHANGED <<dataSourceMode, now, sensorData, historyData, connectionState, isMountedRef,
                initialFetchDone, intervalId, nextTick, abortController, cycles, nCycles,
                lastDone, seededBy, lastReceipt, appended, ws>>

\* validateADCValue(value, field) on the JSON number call.arg
ApplyValidateADCValue ==
    /\ call.fn = "validateADCValue" /\ call.applied = 0
    /\ validADC(Num(call.arg * 10))
    /\ call' = [call EXCEPT !.applied = 1, !.res = validateADCValue(Num(call.arg * 10))]
    /\ PureFrame

\* validateADCValue on a value it has returned
ReapplyValidateADCValue ==
    /\ call.fn = "validateADCValue" /\ call.applied = 1
    /\ validADC(Num(call.res * 10))
    /\ call' = [call EXCEPT !.applied = 2, !.again = validateADCValue(Num(call.res * 10))]
    /\ PureFrame

ApplyGetSoilMoistureCondition ==
    /\ call.fn = "getSoilMoistureCondition" /\ call.applied = 0
    /\ call' = [call EXCEPT !.applied = 1, !.cond = getSoilMoistureCondition(call.arg)]
    /\ PureFrame

ApplyGetLightCondition ==
    /\ call.fn = "getLightCondition" /\ call.applied = 0
    /\ call' = [call EXCEPT !.applied = 1, !.cond = getLightCondition(call.arg)]
    /\ PureFrame

ApplyGetSensorCondition ==
    /\ call.fn = "getSensorCondition" /\ call.applied = 0
    /\ call' = [call EXCEPT !.applied = 1, !.cond = getSensorCondition(call.kind, call.arg)]
    /\ PureFrame

\* generateMockHistoryData(points, intervalSeconds) called at time now
ApplyGenerateMockHistoryData ==
    /\ call.fn = "generateMockHistoryData" /\ call.applied = 0
    /\ \E r \in RandomSamples :
          call' = [call EXCEPT !.applied = 1,
                               !.points = generateMockHistoryData(call.arg, call.interval, now, r)]
    /\ PureFrame

PureNext ==
    \/ ApplyGenerateMockHistoryData
    \/ ApplyValidateADCValue
    \/ ReapplyValidateADCValue
    \/ ApplyGetSoilMoistureCondition
    \/ ApplyGetLightCondition
    \/ ApplyGetSensorCondition

PureSpec == PureInit /\ [][PureNext]_vars

\* ------------------------------------------------ a WebSocket session
WsInit ==
    /\ dataSourceMode = "esp32"
    /\ HookInit
    /\ appended = <<>>
    /\ call = NoCall
    /\ ws = WsInitial

WsFrame ==
    UNCHANGED <<dataSourceMode, sensorData, historyData, connectionState, isMountedRef,
                initialFetchDone, intervalId, nextTick, abortController, cycles, nCycles,
                lastDone, seededBy, lastReceipt, appended, call>>

WsSocketIds == 1..Len(ws.sockets)

\* the application calls connect()
WsConnect ==
    /\ ws.calls < WsMaxCalls
    /\ Len(ws.sockets) < WsMaxSockets
    /\ ws' = [connect(ws) EXCEPT !.gaveUp = FALSE, !.disconnected = FALSE, !.calls = @ + 1]
    /\ UNCHANGED now /\ WsFrame

\* the application calls disconnect()
WsDisconnect ==
    /\ ws.calls < WsMaxCalls
    /\ ws.current # 0
    /\ ws' = [disconnect(ws) EXCEPT !.disconnected = TRUE, !.calls = @ + 1]
    /\ UNCHANGED now /\ WsFrame

\* the handshake of socket s succeeds: its onopen handler runs
WsOpens(s) ==
    /\ ws.sockets[s] = "connecting"
    /\ ws' = onopen([ws EXCEPT !.sockets[s] = "open"], now)
    /\ UNCHANGED now /\ WsFrame

\* socket s is closed, by the peer, by a failure or after close(): with a
\* failure its onerror handler runs first, then its onclose handler
WsDrops(s) ==
    /\ ws.sockets[s] \in {"connecting", "open", "closing"}
    /\ \E failed \in BOOLEAN :
          LET closed == [ws EXCEPT !.sockets[s] = "closed"] IN
          ws' = onclose(IF failed THEN handleError(closed, "WebSocket error") ELSE closed, now)
    /\ UNCHANGED now /\ WsFrame

\* a message arrives on the open socket s
WsMessage(s) ==
    /\ ws.sockets[s] = "open"
    /\ \E payload \in WsPayloads : ws' = handleMessage(ws, payload, now)
    /\ UNCHANGED now /\ WsFrame

\* the clock reaches the time the reconnect timer is due, and it fires
WsReconnectTimer ==
    /\ ws.timer = "armed"
    /\ Len(ws.sockets) < WsMaxSockets
    /\ now' = ws.due
    /\ ws' = reconnectCallback(ws)
    /\ WsFrame

WsNext ==
    \/ WsConnect
    \/ WsDisconnect
    \/ \E s \in WsSocketIds : WsOpens(s)
    \/ \E s \in WsSocketIds : WsDrops(s)
    \/ \E s \in WsSocketIds : WsMessage(s)
    \/ WsReconnectTimer

WsSpec == WsInit /\ [][WsNext]_vars

\* ----------------------------------------------------- a long session
\* The hook polling for longer than the buffer holds, each cycle returning
\* before the next tick.  The backend's sample is a function of the time
\* of the request, stamped by the device one period earlier.
HistBody(t) ==
    ObjectBody(TRUE, NullError, TRUE, Num(10 * (((t \div TimeStep) * 700) % 5000)), Num(28580),
               IsoTimestamp(t - TimeStep), "Connected")

HistInit ==
    /\ dataSourceMode = "esp32"
    /\ HookInit
    /\ appended = <<>>
    /\ call = NoCall
    /\ ws = WsInitial

\* points the cycles have appended, the seeded ones not counted
HistSuccesses == Len(appended) - (IF seededBy = <<>> THEN 0 ELSE FallbackPoints)
HistFailures == nCycles - HistSuccesses

\* the effect runs: the first fetch is due at once, the later ones every
\* updateInterval seconds
HistMount ==
    /\ intervalId = "none"
    /\ intervalId' = "armed"
    /\ nextTick' = now
    /\ UNCHANGED <<dataSourceMode, now, sensorData, historyData, connectionState, isMountedRef,
                   initialFetchDone, abortController, cycles, nCycles, lastDone, seededBy,
                   lastReceipt, appended, call, ws>>

\* a cycle from dispatch to its successful completion
HistCycleSucceeds ==
    /\ intervalId = "armed" /\ now >= nextTick
    /\ LET out == transformBackendData(HistBody(now))
           newData == [soilMoisture |-> out.data.soilMoisture, light |-> out.data.light]
           stamp == DateOr(out.data.receivedAt, NewDate(now))
       IN /\ out.ok
          /\ SuccessBranch(newData, out.data.isESP32Online, out.data.receivedAt)
          /\ lastReceipt' = stamp
          /\ appended' = Append(appended, createHistoryPoint(newData, stamp))
    /\ nCycles' = nCycles + 1
    /\ nextTick' = nextTick + updateInterval * 1000
    /\ UNCHANGED <<dataSourceMode, now, isMountedRef, intervalId, abortController, cycles,
                   lastDone, call, ws>>

\* a cycle from dispatch to its failure; the first one seeds the buffer
HistCycleFails ==
    /\ intervalId = "armed" /\ now >= nextTick
    /\ HistFailures < HistMaxFailures
    /\ CatchBranch(nCycles + 1, NullDate, "Failed to connect to backend API")
    /\ appended' = IF ~initialFetchDone THEN historyData' ELSE appended
    /\ nCycles' = nCycles + 1
    /\ nextTick' = nextTick + updateInterval * 1000
    /\ UNCHANGED <<dataSourceMode, now, isMountedRef, intervalId, abortController, cycles,
                   lastDone, lastReceipt, call, ws>>

HistAdvance ==
    /\ intervalId = "armed" /\ now < nextTick
    /\ now < StartTime + HistMaxTicks * TimeStep
    /\ now' = now + TimeStep
    /\ UNCHANGED <<dataSourceMode, sensorData, historyData, connectionState, isMountedRef,
                   initialFetchDone, intervalId, nextTick, abortController, cycles, nCycles,
                   lastDone, seededBy, lastReceipt, appended, call, ws>>

HistNext ==
    \/ HistMount
    \/ HistCycleSucceeds
    \/ HistCycleFails
    \/ HistAdvance

HistSpec == HistInit /\ [][HistNext]_vars


\* ------------------------------------------------------------ claims
\* invocation c returns in this step
Completes(c) == cycles[c].status # "done" /\ cycles'[c].status = "done"
\* invocation c has been dispatched and has not returned
Pending(c) == cycles[c].status \notin {"idle", "done"}

\* C1: when a newer cycle has started while an older one was pending, the
\* older cycle's completion changes none of the reading, the history and the
\* connection state.
C1_SupersededCompletionIsDiscarded ==
    [][\A c \in CycleIds :
         (Completes(c) /\ c < nCycles)
            => UNCHANGED <<sensorData, historyData, connectionState>>]_vars

\* C2: lastUpdate is always the receipt time of the most recent success
\* applied to state (null before the first), so no failure changes it.
C2_LastUpdateIsLastReceipt == connectionState.lastUpdate = lastReceipt

\* C3: once the effect is cleaned up, no completion of an in-flight fetch
\* changes the reading, the history or the connection state, and no further
\* cycle is dispatched.
C3_NothingAfterTeardown ==
    [][~isMountedRef =>
         /\ UNCHANGED <<sensorData, historyData, connectionState>>
         /\ nCycles' = nCycles
         /\ \A c \in CycleIds : cycles[c].status = "idle" => cycles'[c].status = "idle"
         /\ intervalId' = "cleared"]_vars
\* a fetch that was in flight at teardown has completed after it
C3_Witness ==
    /\ ~isMountedRef
    /\ lastDone.outcome = "discarded"
    /\ lastDone.cycle = nCycles

\* C4: in an active session isChecking is true exactly while some cycle is
\* dispatched and not yet completed.
C4_IsCheckingIffPending ==
    intervalId = "armed" =>
        (connectionState.isChecking <=> \E c \in CycleIds : Pending(c))

\* C5: at most one request is in flight and not cancelled, and it is the
\* request of the latest call.
C5_AtMostOneInFlight ==
    /\ Cardinality({c \in CycleIds : InFlight(cycles[c])}) <= 1
    /\ \A c \in CycleIds : InFlight(cycles[c]) => abortController = c /\ c = nCycles
\* a call found an earlier request pending: the earlier one is cancelled
\* and the new one is in flight
C5_Witness ==
    \E c1 \in CycleIds, c2 \in CycleIds :
        /\ c1 < c2
        /\ cycles[c1].status \in {"abortedFetching", "abortedParsing"}
        /\ cycles[c1].abortedBy = "abort"
        /\ InFlight(cycles[c2])


\* C6: a call is rejected with a TimeoutError only once its own timeout has
\* elapsed since its dispatch.
C6_TimeoutOnlyAfterDeadline ==
    [][\A c \in CycleIds :
         (Completes(c) /\ lastDone'.errName = TimeoutErrorName)
            => now >= cycles[c].dispatchedAt + timeout]_vars

\* C7: a call still pending when its deadline has passed is about to be
\* abandoned: its timeout timer is armed, also while the body is being read.
C7_PendingPastDeadlineTimesOut ==
    \A c \in CycleIds :
        (InFlight(cycles[c]) /\ now >= cycles[c].dispatchedAt + timeout)
            => cycles[c].timer = "armed"

\* the receipt time of a fetched reading: the device's if present, else now
ReceiptTime(d) == IF d.receivedAt.tag = "null" THEN NewDate(now) ELSE d.receivedAt

\* C8: a successful completion, in one step, makes the fetched reading
\* current, appends exactly one point with that reading and the receipt
\* time, and sets the connection state from the backend's online flag; a
\* "Disconnected" device gives isConnected false and an offline message.
C8_SuccessAppliedInOneStep ==
    [][\A c \in CycleIds :
         (Completes(c) /\ lastDone'.outcome = "success") =>
            LET d == lastDone'.data
                n == Len(historyData)
                m == Len(historyData')
            IN /\ sensorData' = [soilMoisture |-> d.soilMoisture, light |-> d.light]
               /\ m = Min(n + 1, HISTORY_MAX_POINTS)
               /\ historyData'[m] = [timestamp |-> getTime(ReceiptTime(d)),
                                     soilMoisture |-> d.soilMoisture, light |-> d.light]
               /\ \A i \in 1..(m - 1) : historyData'[i] = historyData[i + n + 1 - m]
               /\ connectionState'.isConnected = d.isESP32Online
               /\ connectionState'.lastUpdate = ReceiptTime(d)
               /\ connectionState'.isChecking = FALSE
               /\ (connectionState'.error = NullError) <=> d.isESP32Online
               /\ \A b \in SuccessBodies(now) :
                     b.deviceStatus = "Disconnected" =>
                        ~transformBackendData(b).data.isESP32Online]_vars
\* a cycle has just succeeded with a device the backend declares offline
C8_Witness ==
    /\ lastDone.outcome = "success"
    /\ ~lastDone.data.isESP32Online
    /\ ~connectionState.isConnected
    /\ connectionState.error = OfflineMessage
    /\ ~connectionState.isChecking
    /\ Len(historyData) > 1

\* C9: when the first cycle of an active session fails, the state after its
\* completion shows the default mock reading, ten history points, and a
\* connection state that is disconnected, not checking, with an error.
C9_FirstFailureSeeds ==
    [][(Completes(1) /\ lastDone'.outcome = "failure") =>
         /\ sensorData' = [soilMoisture |-> 1200, light |-> 3200]
         /\ Len(historyData') = 10
         /\ ~connectionState'.isConnected
         /\ ~connectionState'.isChecking
         /\ connectionState'.error # NullError]_vars
C9_Witness ==
    /\ lastDone.cycle = 1
    /\ lastDone.outcome = "failure"
    /\ Len(historyData) = 10
    /\ sensorData = DEFAULT_MOCK_DATA

\* C10: the fallback seeding runs at most once, and only at the failure of
\* the first cycle; every completion in an active session sets the
\* initial-fetch flag, which is unset until then.
C10_SeedOnlyOnce ==
    [][/\ Len(seededBy') <= 1
       /\ seededBy' # seededBy =>
             /\ seededBy' = <<1>>
             /\ Completes(1)
             /\ lastDone'.outcome = "failure"
             /\ ~initialFetchDone
       /\ \A c \in CycleIds : (Completes(c) /\ isMountedRef) => initialFetchDone'
       /\ initialFetchDone' # initialFetchDone => \E c \in CycleIds : Completes(c)]_vars
\* a later failure, after the seeding one, has not seeded again
C10_Witness ==
    /\ seededBy = <<1>>
    /\ lastDone.cycle > 1
    /\ lastDone.outcome = "failure"
    /\ initialFetchDone


\* C11: a failure that completes after some earlier cycle has completed
\* leaves the reading and the history as they were; only the connection
\* state changes.
C11_LaterFailureKeepsData ==
    [][\A c \in CycleIds :
         (Completes(c) /\ lastDone'.outcome = "failure" /\ lastDone.cycle # 0) =>
            /\ UNCHANGED <<sensorData, historyData, seededBy>>
            /\ connectionState'.error # NullError]_vars
\* a failure after a success: the backend's reading is still shown
C11_Witness ==
    /\ lastDone.outcome = "failure"
    /\ lastDone.cycle > 1
    /\ seededBy = <<>>
    /\ sensorData # DEFAULT_MOCK_DATA
    /\ Len(historyData) >= 1
    /\ ~connectionState.isConnected

ErrorNames == {ConnectionErrorName, TimeoutErrorName, ParseErrorName}

\* C12: every failure of a fetch is caught: the invocation returns, and in
\* an active session it ends with isConnected false, isChecking false and a
\* non-null error, for each of the three error types.
C12_FailuresAreRecovered ==
    [][\A c \in CycleIds :
         (Completes(c) /\ lastDone'.errName \in ErrorNames) =>
            /\ lastDone'.outcome \in {"failure", "discarded"}
            /\ lastDone'.outcome = "failure" =>
                  /\ ~connectionState'.isConnected
                  /\ ~connectionState'.isChecking
                  /\ connectionState'.error # NullError]_vars
\* a refresh() cycle has failed with a ParseError and was recovered
C12_Witness ==
    /\ lastDone.outcome = "failure"
    /\ lastDone.errName = ParseErrorName
    /\ ~connectionState.isConnected
    /\ ~connectionState.isChecking
    /\ connectionState.error # NullError

\* C13: a failed fetch rejects with the error type its cause calls for: a
\* rejected fetch() or a non-2xx status gives ConnectionError, the call's own
\* deadline gives TimeoutError, and a delivered 2xx body that cannot be
\* turned into a reading gives ParseError.
C13_ErrorTypeByCause ==
    [][\A c \in CycleIds :
         (Completes(c) /\ lastDone'.errName # "none") =>
            /\ lastDone'.errName \in ErrorNames
            /\ cycles[c].status = "fetching" => lastDone'.errName = ConnectionErrorName
            /\ (cycles[c].status = "abortedFetching" /\ cycles[c].abortedBy = "ownTimer") =>
                  lastDone'.errName = TimeoutErrorName
            /\ cycles[c].status = "parsing" => lastDone'.errName = ParseErrorName]_vars

InADCRange(v) == v \in ADC_MIN..ADC_MAX

\* C16: in every state both fields of the reading and of every history
\* point are integers in [0, 4095], whatever produced them.
C16_ReadingsInADCRange ==
    /\ InADCRange(sensorData.soilMoisture) /\ InADCRange(sensorData.light)
    /\ \A i \in 1..Len(historyData) :
          InADCRange(historyData[i].soilMoisture) /\ InADCRange(historyData[i].light)
\* the backend sent 5000 and -10: the reading and the newest point sit on
\* the two ends of the range
C16_Witness ==
    /\ sensorData = [soilMoisture |-> ADC_MAX, light |-> ADC_MIN]
    /\ Len(historyData) >= 1
    /\ historyData[Len(historyData)].soilMoisture = ADC_MAX
    /\ historyData[Len(historyData)].light = ADC_MIN

\* responses that are successful but for a field that is not a number
NonNumericFieldBodies ==
    { ObjectBody(TRUE, NullError, TRUE, soil, ldr, NoTimestamp, "Connected") :
        soil \in {NotANumber, Num(20666)}, ldr \in {NotANumber, Num(28580)} }
    \ { ObjectBody(TRUE, NullError, TRUE, Num(20666), Num(28580), NoTimestamp, "Connected") }
InvalidFieldMessages == {"Invalid soilValue value", "Invalid ldrValue value"}

\* C18: a response whose soilValue or ldrValue is not a number is rejected
\* with a ParseError naming the field and carrying no reading, and the cycle
\* that received it ends as a failure with the reading left as it was.
C18_NonNumericFieldIsParseError ==
    [][/\ \A body \in NonNumericFieldBodies :
             LET out == transformBackendData(body) IN
               /\ ~out.ok /\ out.errName = ParseErrorName /\ out.data = NoData
               /\ out.message = IF ~body.soilValue.isNum THEN "Invalid soilValue value"
                                ELSE "Invalid ldrValue value"
       /\ \A c \in CycleIds :
             (Completes(c) /\ isMountedRef /\ connectionState'.error \in InvalidFieldMessages) =>
                /\ cycles[c].status = "parsing"
                /\ lastDone'.outcome = "failure"
                /\ lastDone'.errName = ParseErrorName
                /\ lastDone'.data = NoData
                /\ sensorData' = sensorData]_vars
\* after a successful cycle a response with a non-numeric ldrValue arrived:
\* the cycle failed and the earlier backend reading is still shown
C18_Witness ==
    /\ lastDone.outcome = "failure"
    /\ lastDone.errName = ParseErrorName
    /\ connectionState.error = "Invalid ldrValue value"
    /\ sensorData # DEFAULT_MOCK_DATA
    /\ seededBy = <<>>

\* C17: an integer v fetched as soilValue or ldrValue is normalized to
\* min(4095, max(0, v)): 5000 to 4095, -10 to 0, a value in range to itself,
\* and normalizing the result again gives the same result.
C17_NormalizeIsClamp ==
    (call.fn = "validateADCValue" /\ call.applied >= 1) =>
       /\ call.res = Min(4095, Max(0, call.arg))
       /\ call.arg = 5000 => call.res = 4095
       /\ call.arg = -10 => call.res = 0
       /\ call.arg \in 0..4095 => call.res = call.arg
       /\ call.applied = 2 => call.again = call.res
\* 5000 was normalized to 4095, and 4095 to itself
C17_Witness ==
    /\ call.fn = "validateADCValue" /\ call.arg = 5000
    /\ call.applied = 2 /\ call.res = 4095 /\ call.again = 4095

\* C19: for every integer v in [0, 4095], getSoilMoistureCondition(v) is
\* Good iff v <= 1500, Okay iff 1500 < v <= 2500, Bad otherwise; 2067 is Okay.
C19_SoilConditionByThreshold ==
    (call.fn = "getSoilMoistureCondition" /\ call.applied = 1) =>
       /\ call.cond \in {"Good", "Okay", "Bad"}
       /\ call.cond = "Good" <=> call.arg <= 1500
       /\ call.cond = "Okay" <=> (1500 < call.arg /\ call.arg <= 2500)
       /\ call.cond = "Bad" <=> call.arg > 2500
       /\ call.arg = 2067 => call.cond = "Okay"
\* the boundary value 1500 was classified, as Good
C19_Witness ==
    /\ call.fn = "getSoilMoistureCondition" /\ call.applied = 1
    /\ call.arg = 1500 /\ call.cond = "Good"

\* C20: for every integer v in [0, 4095], getLightCondition(v) is Bad iff
\* v < 1500, Okay iff 1500 <= v < 3000, Good otherwise; 2858 is Okay; and
\* getSensorCondition(kind, v) is the per-kind function's result.
C20_LightConditionByThreshold ==
    /\ (call.fn = "getLightCondition" /\ call.applied = 1) =>
          /\ call.cond \in {"Good", "Okay", "Bad"}
          /\ call.cond = "Bad" <=> call.arg < 1500
          /\ call.cond = "Okay" <=> (1500 <= call.arg /\ call.arg < 3000)
          /\ call.cond = "Good" <=> call.arg >= 3000
          /\ call.arg = 2858 => call.cond = "Okay"
    /\ (call.fn = "getSensorCondition" /\ call.applied = 1) =>
          /\ call.kind = "soil" =>
                /\ call.cond = "Good" <=> call.arg <= 1500
                /\ call.cond = "Okay" <=> (1500 < call.arg /\ call.arg <= 2500)
                /\ call.cond = "Bad" <=> call.arg > 2500
          /\ call.kind = "light" =>
                /\ call.cond = "Bad" <=> call.arg < 1500
                /\ call.cond = "Okay" <=> (1500 <= call.arg /\ call.arg < 3000)
                /\ call.cond = "Good" <=> call.arg >= 3000
\* the boundary value 1500 was classified through getSensorCondition, as
\* Okay for light
C20_Witness ==
    /\ call.fn = "getSensorCondition" /\ call.kind = "light" /\ call.applied = 1
    /\ call.arg = 1500 /\ call.cond = "Okay"

\* C14: however successful cycles, failed cycles and the fallback seeding
\* follow one another, the history never holds more than
\* HISTORY_MAX_POINTS (30) points.
C14_HistoryWithinCapacity ==
    Len(historyData) <= HISTORY_MAX_POINTS
\* a seeded buffer that has been filled to capacity and has evicted
C14_Witness ==
    /\ seededBy # <<>>
    /\ HistFailures >= 2
    /\ Len(appended) > HISTORY_MAX_POINTS
    /\ Len(historyData) = HISTORY_MAX_POINTS

\* C15: once more points have been appended than the buffer holds, the
\* buffer has exactly HISTORY_MAX_POINTS points, and they are the last ones
\* appended, in the order of their insertion; before that it holds every
\* point appended, in order.
C15_BufferIsLastAppended ==
    LET n == Len(appended) IN
      IF n > HISTORY_MAX_POINTS
      THEN /\ Len(historyData) = HISTORY_MAX_POINTS
           /\ \A i \in 1..HISTORY_MAX_POINTS :
                 historyData[i] = appended[n - HISTORY_MAX_POINTS + i]
      ELSE historyData = appended
\* 32 appends and no seeding: the two oldest points have been evicted
C15_Witness ==
    /\ seededBy = <<>>
    /\ Len(appended) >= HISTORY_MAX_POINTS + 2
    /\ Len(historyData) = HISTORY_MAX_POINTS
    /\ historyData[1] = appended[Len(appended) - HISTORY_MAX_POINTS + 1]
    /\ historyData[1] # appended[1]

\* C22: refresh() dispatches a cycle at once, whether or not another cycle
\* is pending, and leaves the interval timer as it is: not cleared and due
\* when it was due before.
C22_RefreshLeavesTimer ==
    [][Refresh =>
         /\ UNCHANGED <<intervalId, nextTick, now>>
         /\ isMountedRef =>
               /\ nCycles' = nCycles + 1
               /\ dataSourceMode = "esp32" =>
                     /\ cycles'[nCycles'].status = "fetching"
                     /\ cycles'[nCycles'].origin = "refresh"
                     /\ cycles'[nCycles'].dispatchedAt = now]_vars
\* refresh() was called while the tick at StartTime + TimeStep was due and
\* the first cycle was pending: its cycle is in flight, and the tick is
\* still due at the same time
C22_Witness ==
    /\ now = StartTime + TimeStep
    /\ nextTick = StartTime + TimeStep
    /\ intervalId = "armed"
    /\ nCycles = 2
    /\ cycles[2].origin = "refresh" /\ cycles[2].status = "fetching"
    /\ lastDone.cycle = 1 /\ lastDone.abortedBy = "abort"

\* C23: the updates of two cycles do not interleave: a cycle's completion
\* is not applied to the state while another cycle has been dispatched and
\* has not completed.
C23_UpdatesDoNotInterleave ==
    [][\A c \in CycleIds :
         (Completes(c) /\ isMountedRef) =>
            \A d \in CycleIds \ {c} : ~Pending(d)]_vars

\* C24: once a cycle of an active session has completed, with success or
\* failure, the history is not empty and the reading is a valid one.
C24_NeverBlankAfterFirstCycle ==
    (lastDone.cycle # 0 /\ lastDone.outcome # "discarded") =>
       /\ Len(historyData) >= 1
       /\ InADCRange(sensorData.soilMoisture) /\ InADCRange(sensorData.light)
\* the first two cycles have failed and nothing has succeeded: the seeded
\* points and the default reading are shown
C24_Witness ==
    /\ lastDone.cycle = 2 /\ lastDone.outcome = "failure"
    /\ seededBy = <<1>>
    /\ lastReceipt = NullDate
    /\ Len(historyData) = FallbackPoints
    /\ sensorData = DEFAULT_MOCK_DATA

\* C25: in mock mode a cycle makes its reading locally and never calls the
\* ESP32 service; it completes at once with success and leaves isConnected
\* true, error null, isChecking false and lastUpdate the local time.
C25_MockCycleSucceedsLocally ==
    [][dataSourceMode = "mock" =>
         /\ abortController' = 0
         /\ \A c \in CycleIds : ~Pending(c) /\ cycles'[c].timer = "none"
         /\ nCycles' # nCycles =>
               /\ nCycles' = nCycles + 1
               /\ cycles'[nCycles'].status = "done"
               /\ lastDone'.cycle = nCycles' /\ lastDone'.outcome = "success"
               /\ connectionState' = [isConnected |-> TRUE, lastUpdate |-> NewDate(now),
                                      isChecking |-> FALSE, error |-> NullError]
               /\ \E r1 \in RandomSamples, r2 \in RandomSamples :
                     sensorData' = generateRandomSensorData(r1, r2)
               /\ historyData'[Len(historyData')].timestamp = getTime(NewDate(now))]_vars
\* the second mock cycle, one period after the first
C25_Witness ==
    /\ dataSourceMode = "mock"
    /\ nCycles = 2 /\ lastDone.cycle = 2 /\ lastDone.outcome = "success"
    /\ now = StartTime + TimeStep
    /\ connectionState.lastUpdate = NewDate(StartTime + TimeStep)
    /\ connectionState.isConnected /\ ~connectionState.isChecking
    /\ Len(historyData) = 2

\* C26: the timestamps of consecutive history points never decrease,
\* whether a point was stamped with the device's receipt time or with the
\* local time.
C26_HistoryIsTimeOrdered ==
    \A i \in 1..(Len(historyData) - 1) :
        /\ ~historyData[i].timestamp.nan
        /\ ~historyData[i + 1].timestamp.nan
        /\ historyData[i].timestamp.v <= historyData[i + 1].timestamp.v

\* C30: the first step of fetchData sets isChecking and clears the error,
\* and leaves isConnected, lastUpdate, the reading and the history as they
\* were.
C30_DispatchStepFrame ==
    [][(dataSourceMode = "esp32" /\ nCycles' # nCycles) =>
         /\ connectionState'.isChecking
         /\ connectionState'.error = NullError
         /\ connectionState'.isConnected = connectionState.isConnected
         /\ connectionState'.lastUpdate = connectionState.lastUpdate
         /\ UNCHANGED <<sensorData, historyData>>]_vars
\* a cycle was dispatched after a success from an online device: it is being
\* checked while connected, with the last receipt time and reading kept
C30_Witness ==
    /\ connectionState.isChecking
    /\ connectionState.isConnected
    /\ connectionState.error = NullError
    /\ connectionState.lastUpdate # NullDate
    /\ lastDone.outcome = "success"
    /\ \E c \in CycleIds : InFlight(cycles[c])
    /\ Len(historyData) >= 1

\* C29: generateMockHistoryData(count, intervalSeconds) returns count
\* points, none for count <= 0, in ascending time order, consecutive ones
\* intervalSeconds * 1000 ms apart, the last one stamped with the time of
\* the call.
C29_MockHistoryShape ==
    (call.fn = "generateMockHistoryData" /\ call.applied = 1) =>
       LET n == Len(call.points) IN
         /\ n = (IF call.arg <= 0 THEN 0 ELSE call.arg)
         /\ \A i \in 1..n : ~call.points[i].timestamp.nan
         /\ \A i \in 1..(n - 1) :
               /\ call.points[i].timestamp.v < call.points[i + 1].timestamp.v
               /\ call.points[i + 1].timestamp.v - call.points[i].timestamp.v
                     = call.interval * 1000
         /\ n >= 1 => call.points[n].timestamp.v = now
\* ten points five seconds apart, as the fallback seeding asks for
C29_Witness ==
    /\ call.fn = "generateMockHistoryData" /\ call.applied = 1
    /\ call.arg = 10 /\ call.interval = 5
    /\ Len(call.points) = 10
    /\ call.points[1].timestamp.v = now - 45000
    /\ call.points[10].timestamp.v = now

\* C28: every data event delivered on the WebSocket channel carries
\* soilMoisture and light as integers in [0, 4095], and a payload with a
\* non-numeric field is not delivered as data.
C28_WsDataIsValidated ==
    ws.lastEvent.type = "data" =>
       /\ ws.lastEvent.soilMoisture.isNum /\ ws.lastEvent.light.isNum
       /\ ws.lastEvent.soilMoisture.tenths % 10 = 0
       /\ ws.lastEvent.light.tenths % 10 = 0
       /\ InADCRange(ws.lastEvent.soilMoisture.tenths \div 10)
       /\ InADCRange(ws.lastEvent.light.tenths \div 10)

\* C27: a drop of a socket schedules a reconnect one reconnectInterval
\* later while reconnectAttempts is below maxReconnectAttempts; the counter
\* never exceeds maxReconnectAttempts; and once a drop found the counter at
\* the maximum, no reconnect is scheduled and isConnected stays false until
\* connect() is called again.
C27_BoundedReconnect ==
    /\ [](ws.reconnectAttempts <= maxReconnectAttempts)
    /\ [](ws.gaveUp => (~ws.state.isConnected /\ ws.timer # "armed"))
    /\ [][\A s \in WsSocketIds :
            WsDrops(s) =>
               IF ws.reconnectAttempts < maxReconnectAttempts
               THEN ws'.timer = "armed" /\ ws'.due = now + reconnectInterval
               ELSE ws'.timer # "armed" /\ ~ws'.state.isConnected]_vars

\* C21: a cycle is dispatched when the session starts and one more at every
\* tick of the interval timer, one period after the tick before; and a
\* session goes on dispatching until it is torn down, whatever became of the
\* earlier cycles (here: until MaxCycles cycles have been dispatched).
C21_PollingNeverStops ==
    /\ [][Mount => (nCycles' = 1 /\ intervalId' = "armed"
                    /\ nextTick' = now + updateInterval * 1000)]_vars
    /\ [][IntervalTick => (nCycles' = nCycles + 1
                           /\ nextTick' = nextTick + updateInterval * 1000)]_vars
    /\ <>(intervalId = "cleared" \/ nCycles >= MaxCycles)
\* the second tick has dispatched a cycle although the first cycle failed
\* and the second one is still waiting for its response
C21_Witness ==
    /\ now = StartTime + 2 * TimeStep
    /\ nCycles = 3
    /\ cycles[3].origin = "timer" /\ cycles[3].status = "fetching"
    /\ lastDone.cycle = 2 /\ lastDone.abortedBy = "abort"
    /\ seededBy = <<1>>

\* C32: whenever isConnected is true, lastUpdate is non-null and error is
\* null; and once some cycle has completed, isConnected = false together with
\* isChecking = false means that error is non-null.
C32_ConnectionStateConsistent ==
    /\ connectionState.isConnected =>
          /\ connectionState.lastUpdate # NullDate
          /\ connectionState.error = NullError
    /\ ( /\ \E c \in CycleIds : cycles[c].status = "done"
         /\ ~connectionState.isConnected
         /\ ~connectionState.isChecking ) =>
          connectionState.error # NullError
\* a backend answer for an offline device has been applied: the state is
\* disconnected, not checking, and carries the offline message
C32_Witness ==
    /\ lastDone.outcome = "success"
    /\ ~connectionState.isConnected
    /\ ~connectionState.isChecking
    /\ connectionState.error = OfflineMessage
    /\ connectionState.lastUpdate # NullDate

\* C33: once a cycle has completed successfully, the soilMoisture and light
\* of the last history point are those of the current reading.
C33_LastPointIsReading ==
    lastReceipt # NullDate =>
        /\ Len(historyData) > 0
        /\ historyData[Len(historyData)].soilMoisture = sensorData.soilMoisture
        /\ historyData[Len(historyData)].light = sensorData.light
\* a failure has been applied after a success that followed the fallback
\* seeding
C33_Witness ==
    /\ lastReceipt # NullDate
    /\ seededBy = <<1>>
    /\ lastDone.outcome = "failure"
    /\ lastDone.cycle = 3

\* C35: after teardown a call of refresh() or of the timer callback issues no
\* request and changes none of the reading, the history, the connection state
\* and the "has completed at least one fetch" flag.
C35_CallAfterTeardownIsNoOp ==
    [][(~isMountedRef /\ (Refresh \/ IntervalTick)) =>
          UNCHANGED <<sensorData, historyData, connectionState, initialFetchDone,
                      abortController, cycles, nCycles>>]_vars
\* refresh() has been called after teardown while a request was in flight
C35_Witness ==
    /\ ~isMountedRef
    /\ lastDone.outcome = "unmounted"
    /\ \E c \in CycleIds : InFlight(cycles[c])

\* C36: the timeout timer of a fetchSensorData call aborts only that call's
\* own request: when it expires the abortController field holds the
\* controller of that call, and no other call is touched.
C36_TimerAbortsOwnRequestOnly ==
    [][\A c \in CycleIds :
         TimeoutFires(c) =>
            /\ abortController = c
            /\ \A d \in CycleIds \ {c} : cycles'[d] = cycles[d]
            /\ \A d \in CycleIds : cycles'[d].abortedBy # "otherTimer"]_vars
\* the timer of the second call has expired and aborted the second request,
\* the first call having returned before
C36_Witness ==
    /\ lastDone.cycle = 2
    /\ lastDone.abortedBy = "ownTimer"
    /\ cycles[1].status = "done"
    /\ cycles[1].timer = "cleared"

\* C34: after disconnect() no reconnect is scheduled, no socket is opened and
\* isConnected stays false until the application calls connect() again; in
\* particular the close event of the socket that disconnect() closed
\* schedules nothing.
C34_NoReconnectAfterDisconnect ==
    /\ [](ws.disconnected => (~ws.state.isConnected /\ ws.timer # "armed"))
    /\ [][(ws.disconnected /\ ws'.disconnected) =>
             Len(ws'.sockets) = Len(ws.sockets)]_vars

\* the messages handleMessage cannot read
WsInvalidPayloads ==
    {p \in WsPayloads : p.kind # "object" \/ ~p.soilMoisture.isNum \/ ~p.light.isNum}

\* C37: a message that is not valid JSON or whose soilMoisture or light is
\* not a number is dropped: nothing is delivered to the listeners and the
\* connection state is unchanged (the service only changes its log).
C37_InvalidMessageIsDropped ==
    /\ [](\A s \in WsSocketIds : \A p \in WsInvalidPayloads :
            ws.sockets[s] = "open" =>
               handleMessage(ws, p, now) = [ws EXCEPT !.logged = TRUE])
    /\ [][\A s \in WsSocketIds :
            (WsMessage(s) /\ ws'.logged /\ ~ws.logged) =>
               /\ ws'.state = ws.state
               /\ ws'.lastEvent = ws.lastEvent]_vars
\* a message has been dropped on an open socket: the service is still
\* connected and the last event is the connect event of the handshake
C37_Witness ==
    /\ ws.logged
    /\ ws.state.isConnected
    /\ ws.state.error = NullError
    /\ ws.lastEvent.type = "connect"

\* C31: with a backend that answers every request successfully after a delay
\* longer than the polling period and shorter than the fetch timeout, a
\* session that stays active and in which refresh() is not called for ever
\* again and again eventually applies a successful completion.
C31_SlowBackendIsEventuallyRead ==
    \/ []<><<Refresh>>_vars
    \/ <>(intervalId = "cleared" \/ lastReceipt # NullDate)
====
